---- MODULE Spec2Model ----
(***************************************************************************)
(* A model of the content-blocker crate: the rule loader of parse.rs      *)
(* (parse_list_impl) and the matching engine of repr.rs (DomainMatcher,   *)
(* Trigger, Action, process_rules_for_request_impl).                      *)
(*                                                                         *)
(* Strings are sequences of one-character strings, so that prefix, suffix *)
(* and byte-index tests are computed and not assumed.  The three external *)
(* collaborators are modelled by what the code relies on:                 *)
(*   - serde_json: a body is either rejected or is a JSON value;          *)
(*   - regex: literal characters, "." (any character), an optional        *)
(*     leading "(?i)" flag, unanchored search; unbalanced parentheses do  *)
(*     not compile;                                                        *)
(*   - url: as_str() is the URL text, domain() the host between "://"     *)
(*     and the next delimiter, absent when there is no authority or the   *)
(*     host is a dotted number.                                            *)
(***************************************************************************)
EXTENDS Integers, Sequences, FiniteSets, TLC

VARIABLES
    pc,          \* position of the running operation
    body,        \* parse_list_impl: the input text, as serde_json sees it
    list,        \* parse_list_impl: the root array being iterated
    next_rule,   \* parse_list_impl / process_rules: number of elements visited
    rules,       \* parse_list_impl: `rules` being built; process_rules: `rules`
    result,      \* parse_list_impl: the returned Result
    request,     \* process_rules / Trigger::matches: the request
    reactions,   \* process_rules: the accumulator `reactions`
    trigger,     \* Trigger::matches: `self`
    matched,     \* Trigger::matches: the returned bool
    consulted,   \* Trigger::matches: whether DomainMatcher::matches was called
    calls,       \* process_rules: the frames of the calls sharing `rules`
    lib          \* lib.rs process_rules_for_request: rules, position, `reactions`

vars == <<pc, body, list, next_rule, rules, result, request, reactions,
          trigger, matched, consulted, calls, lib>>

(***************************************************************************)
(* Option<T>                                                               *)
(***************************************************************************)
None == [some |-> FALSE]
Some(x) == [some |-> TRUE, v |-> x]

(***************************************************************************)
(* String constants of the rule-list format                                *)
(***************************************************************************)
S_document == <<"d", "o", "c", "u", "m", "e", "n", "t">>
S_image == <<"i", "m", "a", "g", "e">>
S_style_sheet == <<"s", "t", "y", "l", "e", "-", "s", "h", "e", "e", "t">>
S_script == <<"s", "c", "r", "i", "p", "t">>
S_font == <<"f", "o", "n", "t">>
S_raw == <<"r", "a", "w">>
S_svg_document == <<"s", "v", "g", "-", "d", "o", "c", "u", "m", "e", "n", "t">>
S_media == <<"m", "e", "d", "i", "a">>
S_popup == <<"p", "o", "p", "u", "p">>
S_first_party == <<"f", "i", "r", "s", "t", "-", "p", "a", "r", "t", "y">>
S_third_party == <<"t", "h", "i", "r", "d", "-", "p", "a", "r", "t", "y">>
S_block == <<"b", "l", "o", "c", "k">>
S_block_cookies == <<"b", "l", "o", "c", "k", "-", "c", "o", "o", "k", "i", "e", "s">>
S_css_display_none == <<"c", "s", "s", "-", "d", "i", "s", "p", "l", "a", "y", "-", "n", "o", "n", "e">>
S_ignore_previous_rules == <<"i", "g", "n", "o", "r", "e", "-", "p", "r", "e", "v", "i", "o", "u", "s", "-", "r", "u", "l", "e", "s">>
S_case_flag == <<"(", "?", "i", ")">>
S_wildcard == <<"*">>
S_scheme_sep == <<":", "/", "/">>

(***************************************************************************)
(* str                                                                     *)
(***************************************************************************)
StartsWith(s, p) == Len(s) >= Len(p) /\ SubSeq(s, 1, Len(p)) = p

EndsWith(s, p) == Len(s) >= Len(p) /\ SubSeq(s, Len(s) - Len(p) + 1, Len(s)) = p

\* s[from..], with `from` a 0-based byte offset
StrFrom(s, from) == SubSeq(s, from + 1, Len(s))

UpperCase == <<"A", "B", "C", "D", "E", "F", "G", "H", "I", "J", "K", "L", "M",
               "N", "O", "P", "Q", "R", "S", "T", "U", "V", "W", "X", "Y", "Z">>
LowerCase == <<"a", "b", "c", "d", "e", "f", "g", "h", "i", "j", "k", "l", "m",
               "n", "o", "p", "q", "r", "s", "t", "u", "v", "w", "x", "y", "z">>

\* simple case folding of one character
Fold(c) ==
    IF \E k \in 1..Len(UpperCase) : UpperCase[k] = c
    THEN LowerCase[CHOOSE k \in 1..Len(UpperCase) : UpperCase[k] = c]
    ELSE c

(***************************************************************************)
(* regex::Regex                                                            *)
(***************************************************************************)
Count(s, c) == Cardinality({k \in 1..Len(s) : s[k] = c})

\* Regex::new(text): Err for unbalanced parentheses, else the compiled
\* pattern: the case-insensitivity flag and the characters to search for.
RegexNew(text) ==
    LET caseless == StartsWith(text, S_case_flag)
        pattern  == IF caseless THEN StrFrom(text, Len(S_case_flag)) ELSE text
    IN  IF Count(pattern, "(") # Count(pattern, ")")
        THEN [ok |-> FALSE]
        ELSE [ok |-> TRUE, regex |-> [caseless |-> caseless, pattern |-> pattern]]

CharMatches(re, p, c) ==
    \/ p = "."
    \/ IF re.caseless THEN Fold(p) = Fold(c) ELSE p = c

\* Regex::is_match(text): unanchored search
RegexIsMatch(re, text) ==
    \E at \in 0..(Len(text) - Len(re.pattern)) :
        \A k \in 1..Len(re.pattern) : CharMatches(re, re.pattern[k], text[at + k])

(***************************************************************************)
(* url::Url                                                                *)
(***************************************************************************)
HostDelimiters == {"/", "?", "#", ":"}
Digits == {"0", "1", "2", "3", "4", "5", "6", "7", "8", "9"}

\* positions (1-based) where "://" starts in url
SchemeSepAt(url) ==
    {k \in 1..Len(url) : StartsWith(StrFrom(url, k - 1), S_scheme_sep)}

\* Url::domain(): the host when it is a domain name
UrlDomain(url) ==
    IF SchemeSepAt(url) = {} THEN None
    ELSE LET start == (CHOOSE k \in SchemeSepAt(url) :
                          \A j \in SchemeSepAt(url) : k <= j) + Len(S_scheme_sep)
             stops == {k \in start..Len(url) : url[k] \in HostDelimiters}
             stop  == IF stops = {} THEN Len(url) + 1
                      ELSE CHOOSE k \in stops : \A j \in stops : k <= j
             host  == SubSeq(url, start, stop - 1)
         IN  IF host = <<>> \/ (\A k \in 1..Len(host) : host[k] \in Digits \cup {"."})
             THEN None
             ELSE Some(host)

(***************************************************************************)
(* repr.rs                                                                 *)
(***************************************************************************)
ResourceType == {"Document", "Image", "StyleSheet", "Script", "Font", "Raw",
                 "SVGDocument", "Media", "Popup"}

LoadType == {"FirstParty", "ThirdParty"}

ResourceTypeAll == [tag |-> "All"]
ResourceTypeList(types) == [tag |-> "List", types |-> types]

\* the suffix arm without the test of the byte before the suffix
SuffixMatches_NoSeparator(domain, suffix) ==
    IF Len(domain) = Len(suffix) THEN domain = suffix
    ELSE IF Len(domain) > Len(suffix)
         THEN EndsWith(domain, suffix)
         ELSE FALSE

\* the arm of the suffix loop for one subdomain entry
SuffixMatches(domain, suffix) ==
    IF Len(domain) = Len(suffix) THEN domain = suffix
    ELSE IF Len(domain) > Len(suffix)
         THEN /\ domain[(Len(domain) - Len(suffix) - 1) + 1] = "."
              /\ EndsWith(domain, suffix)
         ELSE FALSE

\* DomainMatcher::matches with the exact entries compared as suffixes too
HostMatches_ExactAsSuffix(matcher, domain) ==
    IF \E k \in 1..Len(matcher.exact) : SuffixMatches(domain, matcher.exact[k]) THEN TRUE
    ELSE \E k \in 1..Len(matcher.subdomain) : SuffixMatches(domain, matcher.subdomain[k])

\* DomainMatcher::matches on an extracted host
HostMatches(matcher, domain) ==
    IF \E k \in 1..Len(matcher.exact) : domain = matcher.exact[k] THEN TRUE
    ELSE \E k \in 1..Len(matcher.subdomain) : SuffixMatches(domain, matcher.subdomain[k])

\* DomainMatcher::matches with a missing host read as the empty host
DomainMatcherMatches_NoHostAsEmpty(matcher, url) ==
    LET domain == UrlDomain(url)
    IN  HostMatches(matcher, IF domain.some THEN domain.v ELSE <<>>)

DomainMatcherMatches(matcher, url) ==
    LET domain == UrlDomain(url)
    IN  IF ~domain.some THEN FALSE ELSE HostMatches(matcher, domain.v)

\* line 81 with the index one byte further left
SuffixIndex_OneFurther(domain, suffix) == Len(domain) - Len(suffix) - 2

\* line 81: the index `domain.len() - suffix.len() - 1` into the host
SuffixIndex(domain, suffix) == Len(domain) - Len(suffix) - 1

\* the Greater arm (lines 80-85) is taken and its index is outside
\* domain.as_bytes(), so the indexing panics
SuffixPanics(domain, suffix) ==
    /\ Len(domain) > Len(suffix)
    /\ SuffixIndex(domain, suffix) \notin 0..(Len(domain) - 1)

\* DomainMatcher::matches panics: no exact entry returned true (lines
\* 72-76) and the suffix loop reaches an entry whose arm panics
MatcherPanics(matcher, domain) ==
    /\ \A k \in 1..Len(matcher.exact) : domain # matcher.exact[k]
    /\ \E k \in 1..Len(matcher.subdomain) :
          /\ \A j \in 1..(k - 1) :
                /\ ~SuffixPanics(domain, matcher.subdomain[j])
                /\ ~SuffixMatches(domain, matcher.subdomain[j])
          /\ SuffixPanics(domain, matcher.subdomain[k])

DomainConstraintIf(matcher) == [tag |-> "If", matcher |-> matcher]
DomainConstraintUnless(matcher) == [tag |-> "Unless", matcher |-> matcher]

\* Trigger::matches, first test: the resource-type list
ResourceTypeAllows(t, req) ==
    IF t.resource_type.tag = "List"
    THEN \E k \in 1..Len(t.resource_type.types) :
            t.resource_type.types[k] = req.resource_type
    ELSE TRUE

\* Trigger::matches, second test: the load type
LoadTypeAllows(t, req) ==
    IF t.load_type.some THEN req.load_type = t.load_type.v ELSE TRUE

\* the URL filter passed over when the trigger has a domain constraint
UrlFilterAllows_SkippedWithConstraint(t, req) ==
    t.domain_constraint.some \/ RegexIsMatch(t.url_filter, req.url)

\* Trigger::matches, third test: the URL filter on the whole URL
UrlFilterAllows(t, req) == RegexIsMatch(t.url_filter, req.url)

\* the match on domain_constraint with the Unless arm not negated
DomainConstraintAllows_UnlessAsIf(t, req) ==
    IF ~t.domain_constraint.some THEN TRUE
    ELSE DomainMatcherMatches(t.domain_constraint.v.matcher, req.url)

\* Trigger::matches, the match on domain_constraint
DomainConstraintAllows(t, req) ==
    IF ~t.domain_constraint.some THEN TRUE
    ELSE IF t.domain_constraint.v.tag = "If"
         THEN DomainMatcherMatches(t.domain_constraint.v.matcher, req.url)
         ELSE ~DomainMatcherMatches(t.domain_constraint.v.matcher, req.url)

TriggerMatches(t, req) ==
    IF ~ResourceTypeAllows(t, req) THEN FALSE
    ELSE IF ~LoadTypeAllows(t, req) THEN FALSE
    ELSE IF UrlFilterAllows(t, req) THEN DomainConstraintAllows(t, req)
    ELSE FALSE

ReactionBlock == [tag |-> "Block"]
ReactionBlockCookies == [tag |-> "BlockCookies"]
HideMatchingElements(selector) == [tag |-> "HideMatchingElements", selector |-> selector]

ActionBlock == [tag |-> "Block"]
ActionBlockCookies == [tag |-> "BlockCookies"]
CssDisplayNone(selector) == [tag |-> "CssDisplayNone", selector |-> selector]
IgnorePreviousRules == [tag |-> "IgnorePreviousRules"]

\* Action::process with the reset arm leaving the accumulator as it is
ActionProcess_KeepsOnReset(action, acc) ==
    CASE action.tag = "Block" -> Append(acc, ReactionBlock)
      [] action.tag = "BlockCookies" -> Append(acc, ReactionBlockCookies)
      [] action.tag = "CssDisplayNone" -> Append(acc, HideMatchingElements(action.selector))
      [] action.tag = "IgnorePreviousRules" -> acc

\* Action::process with the reset arm removing the last reaction only
ActionProcess_PopsOnReset(action, acc) ==
    CASE action.tag = "Block" -> Append(acc, ReactionBlock)
      [] action.tag = "BlockCookies" -> Append(acc, ReactionBlockCookies)
      [] action.tag = "CssDisplayNone" -> Append(acc, HideMatchingElements(action.selector))
      [] action.tag = "IgnorePreviousRules" ->
           IF acc = <<>> THEN <<>> ELSE SubSeq(acc, 1, Len(acc) - 1)

\* Action::process: the accumulator after the action
ActionProcess(action, acc) ==
    CASE action.tag = "Block" -> Append(acc, ReactionBlock)
      [] action.tag = "BlockCookies" -> Append(acc, ReactionBlockCookies)
      [] action.tag = "CssDisplayNone" -> Append(acc, HideMatchingElements(action.selector))
      [] action.tag = "IgnorePreviousRules" -> <<>>

\* one iteration of the loop of process_rules_for_request_impl
ProcessRule(rule, req, acc) ==
    IF TriggerMatches(rule.trigger, req) THEN ActionProcess(rule.action, acc) ELSE acc

\* Trigger::matches panics: the matcher is reached (lines 119-134) and panics
TriggerPanics(t, req) ==
    /\ ResourceTypeAllows(t, req)
    /\ LoadTypeAllows(t, req)
    /\ UrlFilterAllows(t, req)
    /\ t.domain_constraint.some
    /\ UrlDomain(req.url).some
    /\ MatcherPanics(t.domain_constraint.v.matcher, UrlDomain(req.url).v)

(***************************************************************************)
(* serde_json::Value                                                       *)
(***************************************************************************)
JNull == [kind |-> "null"]
JBool(b) == [kind |-> "bool", b |-> b]
JNumber(n) == [kind |-> "number", n |-> n]
JString(s) == [kind |-> "string", s |-> s]
JArray(items) == [kind |-> "array", items |-> items]
\* an object is its members in document order, each <<key, value>>
JObject(members) == [kind |-> "object", members |-> members]

AsObject(v) == IF v.kind = "object" THEN Some(v.members) ELSE None
AsArray(v) == IF v.kind = "array" THEN Some(v.items) ELSE None
AsStr(v) == IF v.kind = "string" THEN Some(v.s) ELSE None
AsBool(v) == IF v.kind = "bool" THEN Some(v.b) ELSE None

\* Map::get(key): the last member of that name
Get(members, key) ==
    LET at == {k \in 1..Len(members) : members[k][1] = key}
    IN  IF at = {} THEN None
        ELSE Some(members[CHOOSE k \in at : \A j \in at : j <= k][2])

\* Option::and_then(f) for the accessors above
AndThenAsObject(o) == IF o.some THEN AsObject(o.v) ELSE None
AndThenAsArray(o) == IF o.some THEN AsArray(o.v) ELSE None
AndThenAsStr(o) == IF o.some THEN AsStr(o.v) ELSE None
AndThenAsBool(o) == IF o.some THEN AsBool(o.v) ELSE None

(***************************************************************************)
(* parse.rs                                                                *)
(***************************************************************************)
ErrorJSON == [tag |-> "Err", error |-> "JSON"]
ErrorNotAList == [tag |-> "Err", error |-> "NotAList"]
Ok(v) == [tag |-> "Ok", v |-> v]

ResourceTypeFromStr(s) ==
    CASE s = S_document -> Some("Document")
      [] s = S_image -> Some("Image")
      [] s = S_style_sheet -> Some("StyleSheet")
      [] s = S_script -> Some("Script")
      [] s = S_font -> Some("Font")
      [] s = S_raw -> Some("Raw")
      [] s = S_svg_document -> Some("SVGDocument")
      [] s = S_media -> Some("Media")
      [] s = S_popup -> Some("Popup")
      [] OTHER -> None

LoadTypeFromStr(s) ==
    CASE s = S_first_party -> Some("FirstParty")
      [] s = S_third_party -> Some("ThirdParty")
      [] OTHER -> None

\* iter().filter_map(|d| d.as_str()): the strings of a JSON array, in order
RECURSIVE FilterMapAsStr(_)
FilterMapAsStr(items) ==
    IF items = <<>> THEN <<>>
    ELSE LET s == AsStr(Head(items))
         IN  (IF s.some THEN <<s.v>> ELSE <<>>) \o FilterMapAsStr(Tail(items))

\* filter_map(|r| r.as_str().and_then(ResourceType::from_str)).collect()
RECURSIVE FilterMapResourceType(_)
FilterMapResourceType(strs) ==
    IF strs = <<>> THEN <<>>
    ELSE LET r == ResourceTypeFromStr(Head(strs))
         IN  (IF r.some THEN <<r.v>> ELSE <<>>) \o FilterMapResourceType(Tail(strs))

\* the last recognised load type instead of the first
RECURSIVE FirstLoadType_Last(_)
FirstLoadType_Last(strs) ==
    IF strs = <<>> THEN None
    ELSE LET l == LoadTypeFromStr(Head(strs))
             later == FirstLoadType_Last(Tail(strs))
         IN  IF later.some THEN later ELSE l

\* filter_map(|l| l.as_str().and_then(LoadType::from_str)).next()
RECURSIVE FirstLoadType(_)
FirstLoadType(strs) ==
    IF strs = <<>> THEN None
    ELSE LET l == LoadTypeFromStr(Head(strs))
         IN  IF l.some THEN l ELSE FirstLoadType(Tail(strs))

\* DomainMatcher::new pushing the subdomain entries with their marker
DomainMatcherNew_KeepsMarker(domains) ==
    [exact |-> SelectSeq(domains, LAMBDA d : ~StartsWith(d, S_wildcard)),
     subdomain |-> SelectSeq(domains, LAMBDA d : StartsWith(d, S_wildcard))]

\* DomainMatcher::new
RECURSIVE DomainMatcherNew(_)
DomainMatcherNew(domains) ==
    IF domains = <<>> THEN [exact |-> <<>>, subdomain |-> <<>>]
    ELSE LET domain == Head(domains)
             rest   == DomainMatcherNew(Tail(domains))
         IN  IF StartsWith(domain, S_wildcard)
             THEN [exact |-> rest.exact,
                   subdomain |-> <<StrFrom(domain, 1)>> \o rest.subdomain]
             ELSE [exact |-> <<domain>> \o rest.exact,
                   subdomain |-> rest.subdomain]

\* Action::from_json with an unrecognised type read as "block"
ActionFromJson_BlockByDefault(v) ==
    LET obj == AsObject(v)
    IN  IF ~obj.some THEN None
        ELSE LET t == AndThenAsStr(Get(obj.v, "type"))
             IN  IF ~t.some THEN None
                 ELSE CASE t.v = S_block_cookies -> Some(ActionBlockCookies)
                        [] t.v = S_ignore_previous_rules -> Some(IgnorePreviousRules)
                        [] t.v = S_css_display_none ->
                             LET selector == AndThenAsStr(Get(obj.v, "selector"))
                             IN  IF selector.some THEN Some(CssDisplayNone(selector.v))
                                 ELSE None
                        [] OTHER -> Some(ActionBlock)

\* Action::from_json with a missing selector read as the empty selector
ActionFromJson_EmptySelectorDefault(v) ==
    LET obj == AsObject(v)
    IN  IF ~obj.some THEN None
        ELSE LET t == AndThenAsStr(Get(obj.v, "type"))
             IN  IF ~t.some THEN None
                 ELSE CASE t.v = S_block -> Some(ActionBlock)
                        [] t.v = S_block_cookies -> Some(ActionBlockCookies)
                        [] t.v = S_ignore_previous_rules -> Some(IgnorePreviousRules)
                        [] t.v = S_css_display_none ->
                             LET selector == AndThenAsStr(Get(obj.v, "selector"))
                             IN  IF selector.some THEN Some(CssDisplayNone(selector.v))
                                 ELSE Some(CssDisplayNone(<<>>))
                        [] OTHER -> None

\* Action::from_json
ActionFromJson(v) ==
    LET obj == AsObject(v)
    IN  IF ~obj.some THEN None
        ELSE LET t == AndThenAsStr(Get(obj.v, "type"))
             IN  IF ~t.some THEN None
                 ELSE CASE t.v = S_block -> Some(ActionBlock)
                        [] t.v = S_block_cookies -> Some(ActionBlockCookies)
                        [] t.v = S_ignore_previous_rules -> Some(IgnorePreviousRules)
                        [] t.v = S_css_display_none ->
                             LET selector == AndThenAsStr(Get(obj.v, "selector"))
                             IN  IF selector.some THEN Some(CssDisplayNone(selector.v))
                                 ELSE None
                        [] OTHER -> None

\* the flag prepended to the url-filter text
CaseFlag(url_filter_is_case_sensitive) ==
    IF url_filter_is_case_sensitive THEN S_case_flag ELSE <<>>

\* the url_filter of a trigger object: None stands for `continue`
UrlFilterOf(trigger_source) ==
    LET sensitive == AndThenAsBool(Get(trigger_source, "url-filter-is-case-sensitive"))
        url_filter_is_case_sensitive == IF sensitive.some THEN sensitive.v ELSE FALSE
        filter == AndThenAsStr(Get(trigger_source, "url-filter"))
    IN  IF ~filter.some THEN None
        ELSE LET re == RegexNew(CaseFlag(url_filter_is_case_sensitive) \o filter.v)
             IN  IF re.ok THEN Some(re.regex) ELSE None

\* resource_type with a list left empty by the filter read as All
ResourceTypeOf_AllWhenEmpty(trigger_source) ==
    LET l == AndThenAsArray(Get(trigger_source, "resource-type"))
    IN  IF l.some /\ FilterMapResourceType(FilterMapAsStr(l.v)) # <<>>
        THEN ResourceTypeList(FilterMapResourceType(FilterMapAsStr(l.v)))
        ELSE ResourceTypeAll

ResourceTypeOf(trigger_source) ==
    LET l == AndThenAsArray(Get(trigger_source, "resource-type"))
    IN  IF l.some THEN ResourceTypeList(FilterMapResourceType(FilterMapAsStr(l.v)))
        ELSE ResourceTypeAll

LoadTypeOf(trigger_source) ==
    LET l == AndThenAsArray(Get(trigger_source, "load-type"))
    IN  IF l.some THEN FirstLoadType(FilterMapAsStr(l.v)) ELSE None

\* if_domain / unless_domain with an array without strings read as absent
DomainsOf_EmptyAsAbsent(trigger_source, key) ==
    LET l == AndThenAsArray(Get(trigger_source, key))
    IN  IF l.some /\ FilterMapAsStr(l.v) # <<>>
        THEN Some(DomainMatcherNew(FilterMapAsStr(l.v)))
        ELSE None

\* if_domain / unless_domain: Option<DomainMatcher>
DomainsOf(trigger_source, key) ==
    LET l == AndThenAsArray(Get(trigger_source, key))
    IN  IF l.some THEN Some(DomainMatcherNew(FilterMapAsStr(l.v))) ELSE None

\* the test with an empty domain list taken for an absent one
BothDomains_NonEmptyOnly(if_domain, unless_domain) ==
    /\ if_domain.some /\ unless_domain.some
    /\ if_domain.v # DomainMatcherNew(<<>>)
    /\ unless_domain.v # DomainMatcherNew(<<>>)

\* the test that skips a rule naming both domain lists
BothDomains(if_domain, unless_domain) == if_domain.some /\ unless_domain.some

DomainConstraintOf(if_domain, unless_domain) ==
    IF if_domain.some THEN Some(DomainConstraintIf(if_domain.v))
    ELSE IF unless_domain.some THEN Some(DomainConstraintUnless(unless_domain.v))
    ELSE None

\* the body of the loop of parse_list_impl: Some(rule) when the element is
\* pushed, None when it is skipped by a `continue`
ParseRule(rule) ==
    LET obj == AsObject(rule)
    IN  IF ~obj.some THEN None
        ELSE
        LET trigger_source == AndThenAsObject(Get(obj.v, "trigger"))
        IN  IF ~trigger_source.some THEN None
            ELSE
            LET url_filter == UrlFilterOf(trigger_source.v)
            IN  IF ~url_filter.some THEN None
                ELSE
                LET resource_type == ResourceTypeOf(trigger_source.v)
                    load_type     == LoadTypeOf(trigger_source.v)
                    if_domain     == DomainsOf(trigger_source.v, "if-domain")
                    unless_domain == DomainsOf(trigger_source.v, "unless-domain")
                IN  IF BothDomains(if_domain, unless_domain) THEN None
                    ELSE
                    LET domain_constraint == DomainConstraintOf(if_domain, unless_domain)
                        a == Get(obj.v, "action")
                        action == IF a.some THEN ActionFromJson(a.v) ELSE None
                    IN  IF ~action.some THEN None
                        ELSE Some([trigger |-> [url_filter |-> url_filter.v,
                                                resource_type |-> resource_type,
                                                load_type |-> load_type,
                                                domain_constraint |-> domain_constraint],
                                   action |-> action.v])

\* the two `try!`s with a root that is not an array read as an empty list
ParseRoot_EmptyForNonList(b) ==
    IF ~b.valid THEN ErrorJSON
    ELSE LET l == AsArray(b.json)
         IN  IF l.some THEN Ok(l.v) ELSE Ok(<<>>)

\* serde_json::from_str(body) and json_body.as_array(): the two `try!`s
ParseRoot(b) ==
    IF ~b.valid THEN ErrorJSON
    ELSE LET l == AsArray(b.json)
         IN  IF l.some THEN Ok(l.v) ELSE ErrorNotAList

(***************************************************************************)
(* Bounds                                                                  *)
(***************************************************************************)
\* longest root array given to parse_list_impl
MaxList == 2
\* longest rule list given to process_rules_for_request_impl
MaxRules == 3
\* longest raw domain list given to DomainMatcher::new
MaxDomains == 2

\* the sequences over S of length at most n
SeqsUpTo(S, n) == UNION {[1..k -> S] : k \in 0..n}

(***************************************************************************)
(* Inputs: strings and URLs                                                *)
(***************************************************************************)
S_hi == <<"h", "i">>
S_open_paren == <<"(">>
S_ad_html == <<"a", "d", ".", "h", "t", "m", "l">>
S_x == <<"/", "x">>
S_x_sub == <<"/", "x", "/", "s", "u", "b">>
S_bogus == <<"b", "o", "g", "u", "s">>
S_invalid == <<"i", "n", "v", "a", "l", "i", "d">>
S_selector == <<"#", "a", "d">>
S_org == <<"o", "r", "g">>
S_bad_org == <<"b", "a", "d", ".", "o", "r", "g">>
S_verybad_org == <<"v", "e", "r", "y", "b", "a", "d", ".", "o", "r", "g">>
S_good_org == <<"g", "o", "o", "d", ".", "o", "r", "g">>
S_a_b == <<"a", ".", "b">>

\* the serialization of a URL with an authority
UrlOf(host, path) == <<"x">> \o S_scheme_sep \o host \o <<"/">> \o path

U_good == UrlOf(S_good_org, S_ad_html)
U_bad == UrlOf(S_bad_org, S_ad_html)
U_ok_bad == UrlOf(<<"o", "k", ".">> \o S_bad_org, S_ad_html)
U_verybad == UrlOf(S_verybad_org, S_ad_html)
U_notok_verybad == UrlOf(<<"n", "o", "t", "o", "k", ".">> \o S_verybad_org, S_ad_html)
\* ends with verybad.org, without a label separator before it
U_xverybad == UrlOf(<<"x">> \o S_verybad_org, S_ad_html)
\* a host that is an entry's suffix, shorter than the entry
U_org == UrlOf(S_org, S_ad_html)
\* no authority: Url::domain() is None
U_nohost == <<"d", "a", "t", "a", ":">> \o S_ad_html
\* a numeric host: Url::domain() is None
U_ip == UrlOf(<<"1", ".", "2">>, S_ad_html)
\* a path the filter ad.html matches only without regard to case
U_upper == UrlOf(S_bad_org, <<"A", "D", ".", "H", "T", "M", "L">>)
\* a path the filter ad.html does not match
U_other == UrlOf(S_good_org, <<"y">>)

TriggerUrls == {U_good, U_bad, U_ok_bad, U_verybad, U_notok_verybad, U_xverybad,
                U_org, U_nohost, U_ip, U_upper, U_other}

\* URLs that differ only in letter case, and one without the letters
U_hi == UrlOf(S_a_b, <<"h", "i">>)
U_HI == UrlOf(S_a_b, <<"H", "I">>)
U_Hi == UrlOf(S_a_b, <<"H", "i">>)
U_y == UrlOf(S_a_b, <<"y">>)
CaseUrls == {U_hi, U_HI, U_Hi, U_y}

U_x == UrlOf(S_a_b, <<"x">>)
U_x_sub == UrlOf(S_a_b, <<"x", "/", "s", "u", "b">>)
EvalUrls == {U_x, U_x_sub, U_y}

Request(url, resource_type, load_type) ==
    [url |-> url, resource_type |-> resource_type, load_type |-> load_type]

\* Request::default() of lib.rs, the request of the tests
DefaultRequest == Request(<<>>, "Document", "FirstParty")

(***************************************************************************)
(* Inputs: rule-list documents                                             *)
(***************************************************************************)
StrArray(strs) == JArray([k \in 1..Len(strs) |-> JString(strs[k])])

\* a rule object from the members of its trigger and of its action
Element(trigger_members, action_members) ==
    JObject(<<<<"trigger", JObject(trigger_members)>>,
              <<"action", JObject(action_members)>>>>)

M_filter(s) == <<<<"url-filter", JString(s)>>>>
M_type(s) == <<<<"type", JString(s)>>>>
M_block == M_type(S_block)

\* elements that are not rule objects, or lack a trigger or an action
\* (tests.rs, missing_required_values)
BrokenElements ==
    { JNumber(5),
      JObject(<<<<"action", JObject(<<>>)>>>>),
      JObject(<<<<"action", JNumber(5)>>>>),
      JObject(<<<<"trigger", JNumber(5)>>, <<"action", JObject(M_block)>>>>),
      JObject(<<<<"trigger", JObject(<<>>)>>>>),
      JObject(<<<<"trigger", JObject(M_filter(S_hi))>>>>),
      JObject(<<<<"trigger", JObject(M_filter(S_hi))>>, <<"action", JNumber(5)>>>>) }

CaseValues == {JBool(TRUE), JBool(FALSE), JNumber(1)}

FilterElements ==
    { Element(<<>>, M_block),
      Element(<<<<"url-filter", JNumber(5)>>>>, M_block),
      Element(M_filter(<<>>), M_block),
      Element(M_filter(S_hi), M_block),
      Element(M_filter(S_open_paren), M_block),
      Element(M_filter(S_open_paren)
                \o <<<<"url-filter-is-case-sensitive", JBool(TRUE)>>>>, M_block) }
    \cup { Element(M_filter(S_hi) \o <<<<"url-filter-is-case-sensitive", c>>>>, M_block) :
             c \in CaseValues }

ResourceTypeValues ==
    { JString(S_image),
      StrArray(<<>>),
      StrArray(<<S_bogus>>),
      StrArray(<<S_image>>),
      StrArray(<<S_media, S_bogus, S_document>>),
      JArray(<<JNumber(5), JString(S_script)>>) }

LoadTypeValues ==
    { JString(S_first_party),
      StrArray(<<>>),
      StrArray(<<S_bogus>>),
      StrArray(<<S_first_party>>),
      StrArray(<<S_third_party, S_first_party>>),
      JArray(<<JString(S_bogus), JNumber(5), JString(S_third_party)>>) }

DomainValues ==
    { JString(S_bad_org),
      StrArray(<<>>),
      JArray(<<JNumber(5)>>),
      StrArray(<<S_bad_org, S_wildcard \o S_verybad_org>>),
      JArray(<<JString(S_wildcard \o S_bad_org), JString(S_good_org), JNumber(5),
               JString(S_wildcard \o S_wildcard \o S_org), JString(S_bad_org)>>) }

FieldElements ==
    { Element(M_filter(S_hi) \o <<<<"resource-type", v>>>>, M_block) :
        v \in ResourceTypeValues }
    \cup { Element(M_filter(S_hi) \o <<<<"load-type", v>>>>, M_block) :
             v \in LoadTypeValues }
    \cup { Element(M_filter(S_ad_html) \o <<<<"if-domain", v>>>>, M_block) :
             v \in DomainValues }
    \cup { Element(M_filter(S_ad_html) \o <<<<"unless-domain", v>>>>, M_block) :
             v \in DomainValues }

\* triggers naming both domain lists (tests.rs, if_unless_domain)
BothDomainElements ==
    { Element(M_filter(S_hi) \o <<<<"if-domain", i>>, <<"unless-domain", u>>>>, M_block) :
        i \in {JString(S_bad_org), StrArray(<<>>), StrArray(<<S_bad_org>>)},
        u \in {JNumber(5), StrArray(<<>>), StrArray(<<S_bad_org>>)} }

ActionElements ==
    { Element(M_filter(S_hi), a) :
        a \in { M_type(S_block_cookies),
                M_type(S_ignore_previous_rules),
                M_type(S_css_display_none) \o <<<<"selector", JString(S_selector)>>>>,
                M_type(S_css_display_none),
                M_type(S_css_display_none) \o <<<<"selector", JNumber(5)>>>>,
                M_type(S_invalid),
                <<<<"type", JNumber(5)>>>>,
                <<>> } }

Elements == BrokenElements \cup FilterElements \cup FieldElements
            \cup BothDomainElements \cup ActionElements

\* text serde_json rejects, or the value it returns
InvalidBody == [valid |-> FALSE]
ValidBody(json) == [valid |-> TRUE, json |-> json]

Bodies ==
    {InvalidBody}
    \cup { ValidBody(j) : j \in {JNull, JNumber(5), JString(S_hi),
                                 Element(<<>>, <<>>)} }
    \cup { ValidBody(JArray(l)) : l \in SeqsUpTo(Elements, MaxList) }

(***************************************************************************)
(* parse_list_impl, one loop iteration per step                            *)
(***************************************************************************)
NoResult == [tag |-> "None"]
\* lib.rs is not running
NoLib == [pc |-> "idle", rules |-> <<>>, next_rule |-> 0, reactions |-> <<>>]
NoTrigger == [url_filter |-> [caseless |-> FALSE, pattern |-> <<>>],
              resource_type |-> ResourceTypeAll,
              load_type |-> None,
              domain_constraint |-> None]

Init ==
    /\ pc = "parse"
    /\ body \in Bodies
    /\ list = <<>>
    /\ next_rule = 0
    /\ rules = <<>>
    /\ result = NoResult
    /\ request = DefaultRequest
    /\ reactions = <<>>
    /\ trigger = NoTrigger
    /\ matched = FALSE
    /\ consulted = FALSE
    /\ calls = <<>>
    /\ lib = NoLib

\* lines 95-97: the two early returns, then `let mut rules = vec![]`
ParseBody ==
    /\ pc = "parse"
    /\ LET root == ParseRoot(body)
       IN  IF root.tag = "Err"
           THEN /\ result' = root
                /\ pc' = "returned"
                /\ UNCHANGED list
           ELSE /\ list' = root.v
                /\ pc' = "loop"
                /\ UNCHANGED result
    /\ rules' = <<>>
    /\ next_rule' = 0
    /\ UNCHANGED <<body, request, reactions, trigger, matched, consulted, calls, lib>>

\* lines 98-186: one element of the array, pushed or skipped
ParseElement ==
    /\ pc = "loop"
    /\ next_rule < Len(list)
    /\ LET r == ParseRule(list[next_rule + 1])
       IN  rules' = IF r.some THEN Append(rules, r.v) ELSE rules
    /\ next_rule' = next_rule + 1
    /\ UNCHANGED <<pc, body, list, result, request, reactions, trigger, matched, consulted, calls, lib>>

\* line 188: Ok(rules)
ReturnRules ==
    /\ pc = "loop"
    /\ next_rule = Len(list)
    /\ result' = Ok(rules)
    /\ pc' = "returned"
    /\ UNCHANGED <<body, list, next_rule, rules, request, reactions, trigger, matched, consulted, calls, lib>>

Next == ParseBody \/ ParseElement \/ ReturnRules

Spec == Init /\ [][Next]_vars

(***************************************************************************)
(* Trigger::matches, one test per step                                     *)
(***************************************************************************)
RawDomains == {S_bad_org, S_wildcard \o S_verybad_org, S_wildcard}

Matchers == {DomainMatcherNew(l) : l \in SeqsUpTo(RawDomains, MaxDomains)}

Filters == {RegexNew(S_ad_html).regex, RegexNew(S_case_flag \o S_ad_html).regex}

Triggers ==
    { [url_filter |-> f, resource_type |-> r, load_type |-> l, domain_constraint |-> d] :
        f \in Filters,
        r \in {ResourceTypeAll, ResourceTypeList(<<>>), ResourceTypeList(<<"Media", "Raw">>)},
        l \in {None, Some("FirstParty"), Some("ThirdParty")},
        d \in {None} \cup {Some(DomainConstraintIf(m)) : m \in Matchers}
                     \cup {Some(DomainConstraintUnless(m)) : m \in Matchers} }

TriggerRequests ==
    { Request(u, r, l) : u \in TriggerUrls, r \in {"Document", "Media"}, l \in LoadType }

InitTrigger ==
    /\ pc = "resource_type"
    /\ trigger \in Triggers
    /\ request \in TriggerRequests
    /\ matched = FALSE
    /\ consulted = FALSE
    /\ calls = <<>>
    /\ lib = NoLib
    /\ body = InvalidBody
    /\ list = <<>>
    /\ next_rule = 0
    /\ rules = <<>>
    /\ result = NoResult
    /\ reactions = <<>>

\* the value `b` is returned
ReturnMatch(b) ==
    /\ matched' = b
    /\ pc' = "matched"

\* lines 119-123
CheckResourceType ==
    /\ pc = "resource_type"
    /\ IF ResourceTypeAllows(trigger, request)
       THEN pc' = "load_type" /\ UNCHANGED matched
       ELSE ReturnMatch(FALSE)
    /\ UNCHANGED <<body, list, next_rule, rules, result, request, reactions, trigger, consulted, calls, lib>>

\* lines 125-129
CheckLoadType ==
    /\ pc = "load_type"
    /\ IF LoadTypeAllows(trigger, request)
       THEN pc' = "url_filter" /\ UNCHANGED matched
       ELSE ReturnMatch(FALSE)
    /\ UNCHANGED <<body, list, next_rule, rules, result, request, reactions, trigger, consulted, calls, lib>>

\* lines 131 and 143
CheckUrlFilter ==
    /\ pc = "url_filter"
    /\ IF UrlFilterAllows(trigger, request)
       THEN pc' = "domain_constraint" /\ UNCHANGED matched
       ELSE ReturnMatch(FALSE)
    /\ UNCHANGED <<body, list, next_rule, rules, result, request, reactions, trigger, consulted, calls, lib>>

\* lines 132-140
CheckDomainConstraint ==
    /\ pc = "domain_constraint"
    /\ ReturnMatch(DomainConstraintAllows(trigger, request))
    /\ consulted' = trigger.domain_constraint.some
    /\ UNCHANGED <<body, list, next_rule, rules, result, request, reactions, trigger, calls, lib>>

NextTrigger ==
    CheckResourceType \/ CheckLoadType \/ CheckUrlFilter \/ CheckDomainConstraint

SpecTrigger == InitTrigger /\ [][NextTrigger]_vars

(***************************************************************************)
(* process_rules_for_request_impl, one rule per step                       *)
(***************************************************************************)
Rule(t, a) == [trigger |-> t, action |-> a]

FilterTrigger(s) ==
    [url_filter |-> RegexNew(s).regex, resource_type |-> ResourceTypeAll,
     load_type |-> None, domain_constraint |-> None]

Actions == {ActionBlock, ActionBlockCookies, CssDisplayNone(S_selector), IgnorePreviousRules}

EvalRules == {Rule(FilterTrigger(s), a) : s \in {S_x, S_x_sub}, a \in Actions}

RuleLists == SeqsUpTo(EvalRules, MaxRules)

EvalRequests == {Request(u, "Document", "FirstParty") : u \in EvalUrls}

InitEval ==
    /\ pc = "for"
    /\ rules \in RuleLists
    /\ request \in EvalRequests
    /\ next_rule = 0
    /\ reactions = <<>>
    /\ result = NoResult
    /\ body = InvalidBody
    /\ list = <<>>
    /\ trigger = NoTrigger
    /\ matched = FALSE
    /\ consulted = FALSE
    /\ calls = <<>>
    /\ lib = NoLib

\* lines 199-203: one iteration; the index expression of line 81 panics
\* when it is outside the host
VisitRule ==
    /\ pc = "for"
    /\ next_rule < Len(rules)
    /\ IF TriggerPanics(rules[next_rule + 1].trigger, request)
       THEN /\ pc' = "panicked"
            /\ UNCHANGED <<reactions, next_rule>>
       ELSE /\ reactions' = ProcessRule(rules[next_rule + 1], request, reactions)
            /\ next_rule' = next_rule + 1
            /\ UNCHANGED pc
    /\ UNCHANGED <<body, list, rules, result, request, trigger, matched, consulted, calls, lib>>

\* line 204
ReturnReactions ==
    /\ pc = "for"
    /\ next_rule = Len(rules)
    /\ result' = Ok(reactions)
    /\ pc' = "reacted"
    /\ UNCHANGED <<body, list, next_rule, rules, request, reactions, trigger, matched, consulted, calls, lib>>

NextEval == VisitRule \/ ReturnReactions

SpecEval == InitEval /\ [][NextEval]_vars

(***************************************************************************)
(* process_rules_for_request_impl as one function of (rules, request)      *)
(***************************************************************************)
RECURSIVE ForEachRule(_, _, _)
ForEachRule(rs, req, acc) ==
    IF rs = <<>> THEN acc
    ELSE ForEachRule(Tail(rs), req, ProcessRule(Head(rs), req, acc))

ProcessRulesForRequestImpl(rs, req) == ForEachRule(rs, req, <<>>)

(***************************************************************************)
(* Several calls of process_rules_for_request_impl on one `&[Rule]`: a     *)
(* call may start at any time, before, while or after another one runs,    *)
(* and the calls advance one rule at a time in any interleaving.  Each     *)
(* frame holds the call's `request`, its position in the `for` loop and    *)
(* its local `reactions`.                                                  *)
(***************************************************************************)
MaxCalls == 2
MaxSharedRules == 2

SharedRules ==
    {Rule(FilterTrigger(S_x), ActionBlock),
     Rule(FilterTrigger(S_x), CssDisplayNone(S_selector)),
     Rule(FilterTrigger(S_x_sub), ActionBlockCookies),
     Rule(FilterTrigger(S_x_sub), IgnorePreviousRules)}

SharedRuleLists == SeqsUpTo(SharedRules, MaxSharedRules)

\* line 198 of a call made when the frames `cs` exist: a new `vec![]`
NewCall_ReusedAccumulator(cs, req) ==
    [request |-> req, next_rule |-> 0, pc |-> "for",
     reactions |-> IF cs = <<>> THEN <<>> ELSE cs[Len(cs)].reactions]

NewCall(cs, req) ==
    [request |-> req, next_rule |-> 0, pc |-> "for", reactions |-> <<>>]

\* lines 199-203 in frame c: only that frame's `reactions` is touched
VisitInCall_SharedAccumulator(cs, c, rs) ==
    LET acc == ProcessRule(rs[cs[c].next_rule + 1], cs[c].request, cs[c].reactions)
    IN  [k \in DOMAIN cs |->
            IF k = c
            THEN [cs[k] EXCEPT !.reactions = acc, !.next_rule = @ + 1]
            ELSE [cs[k] EXCEPT !.reactions = acc]]

VisitInCall(cs, c, rs) ==
    [cs EXCEPT ![c].reactions =
                   ProcessRule(rs[cs[c].next_rule + 1], cs[c].request, @),
               ![c].next_rule = @ + 1]

InitCalls ==
    /\ pc = "calls"
    /\ rules \in SharedRuleLists
    /\ calls = <<>>
    /\ lib = NoLib
    /\ request = DefaultRequest
    /\ next_rule = 0
    /\ reactions = <<>>
    /\ result = NoResult
    /\ body = InvalidBody
    /\ list = <<>>
    /\ trigger = NoTrigger
    /\ matched = FALSE
    /\ consulted = FALSE

\* a caller enters the function: lines 197-198
Call ==
    /\ pc = "calls"
    /\ Len(calls) < MaxCalls
    /\ \E req \in EvalRequests : calls' = Append(calls, NewCall(calls, req))
    /\ UNCHANGED <<pc, body, list, next_rule, rules, result, request, reactions, trigger, matched, consulted, lib>>

\* lines 199-203: one iteration of one call
CallVisitRule ==
    /\ pc = "calls"
    /\ \E c \in DOMAIN calls :
          /\ calls[c].pc = "for"
          /\ calls[c].next_rule < Len(rules)
          /\ calls' = VisitInCall(calls, c, rules)
    /\ UNCHANGED <<pc, body, list, next_rule, rules, result, request, reactions, trigger, matched, consulted, lib>>

\* line 204: one call returns its `reactions`
CallReturn ==
    /\ pc = "calls"
    /\ \E c \in DOMAIN calls :
          /\ calls[c].pc = "for"
          /\ calls[c].next_rule = Len(rules)
          /\ calls' = [calls EXCEPT ![c].pc = "reacted"]
    /\ UNCHANGED <<pc, body, list, next_rule, rules, result, request, reactions, trigger, matched, consulted, lib>>

NextCalls == Call \/ CallVisitRule \/ CallReturn

SpecCalls == InitCalls /\ [][NextCalls]_vars

(***************************************************************************)
(* parse_list_impl, then process_rules_for_request_impl on the rules it    *)
(* returned: the if-domain / unless-domain example, from text to reactions *)
(***************************************************************************)
ExampleDomains == StrArray(<<S_bad_org, S_wildcard \o S_verybad_org>>)

ExampleElement(key) ==
    Element(M_filter(S_ad_html) \o <<<<key, ExampleDomains>>>>, M_block)

IfBody == ValidBody(JArray(<<ExampleElement("if-domain")>>))
UnlessBody == ValidBody(JArray(<<ExampleElement("unless-domain")>>))
IfUnlessBody ==
    ValidBody(JArray(<<ExampleElement("if-domain"), ExampleElement("unless-domain")>>))

ExampleBodies == {IfBody, UnlessBody, IfUnlessBody}

ExampleRequests == {Request(u, "Document", "FirstParty") : u \in TriggerUrls}

InitEndToEnd ==
    /\ pc = "parse"
    /\ body \in ExampleBodies
    /\ request \in ExampleRequests
    /\ list = <<>>
    /\ next_rule = 0
    /\ rules = <<>>
    /\ result = NoResult
    /\ reactions = <<>>
    /\ trigger = NoTrigger
    /\ matched = FALSE
    /\ consulted = FALSE
    /\ calls = <<>>
    /\ lib = NoLib

\* the caller passes the rules parse_list_impl returned to
\* process_rules_for_request_impl: repr.rs lines 197-198
EvaluateLoaded ==
    /\ pc = "returned"
    /\ result.tag = "Ok"
    /\ rules' = result.v
    /\ next_rule' = 0
    /\ reactions' = <<>>
    /\ result' = NoResult
    /\ pc' = "for"
    /\ UNCHANGED <<body, list, request, trigger, matched, consulted, calls, lib>>

NextEndToEnd ==
    ParseBody \/ ParseElement \/ ReturnRules \/ EvaluateLoaded \/ VisitRule \/ ReturnReactions

SpecEndToEnd == InitEndToEnd /\ [][NextEndToEnd]_vars

(***************************************************************************)
(* process_rules_for_request_impl on rules with domain sets, run to its    *)
(* end: a call that has started keeps executing, which is the weak         *)
(* fairness of its steps                                                   *)
(***************************************************************************)
MaxTotalRules == 2

\* domain lists as a rule list may hold them: "*" alone gives the empty suffix
TotalDomainLists ==
    { <<S_wildcard>>,
      <<S_wildcard \o S_verybad_org, S_wildcard>>,
      <<S_bad_org, S_wildcard \o S_verybad_org>>,
      <<S_wildcard \o <<".">> \o S_org>> }

ConstrainedTrigger(d) ==
    [url_filter |-> RegexNew(S_ad_html).regex, resource_type |-> ResourceTypeAll,
     load_type |-> None, domain_constraint |-> Some(d)]

TotalRules ==
    { Rule(ConstrainedTrigger(DomainConstraintIf(DomainMatcherNew(l))), ActionBlock) :
        l \in TotalDomainLists }
    \cup { Rule(ConstrainedTrigger(DomainConstraintUnless(DomainMatcherNew(l))), ActionBlock) :
             l \in {<<S_wildcard \o S_verybad_org, S_wildcard>>} }
    \cup { Rule(FilterTrigger(S_ad_html), IgnorePreviousRules) }

InitTotal ==
    /\ pc = "for"
    /\ rules \in SeqsUpTo(TotalRules, MaxTotalRules)
    /\ request \in ExampleRequests
    /\ next_rule = 0
    /\ reactions = <<>>
    /\ result = NoResult
    /\ body = InvalidBody
    /\ list = <<>>
    /\ trigger = NoTrigger
    /\ matched = FALSE
    /\ consulted = FALSE
    /\ calls = <<>>
    /\ lib = NoLib

SpecTotal == InitTotal /\ [][NextEval]_vars /\ WF_vars(NextEval)

(***************************************************************************)
(* lib.rs: the evaluator over `&str` URLs and Vec<DomainExemption>         *)
(***************************************************************************)
\* str::find(..).is_some()
FindIsSome(haystack, needle) ==
    \E i \in 0..(Len(haystack) - Len(needle)) :
        SubSeq(haystack, i + 1, i + Len(needle)) = needle

SubdomainMatch(domain) == [tag |-> "SubdomainMatch", domain |-> domain]
DomainMatch(domain) == [tag |-> "DomainMatch", domain |-> domain]

\* DomainExemption::from_str
DomainExemptionFromStr(s) ==
    IF StartsWith(s, S_wildcard) THEN SubdomainMatch(StrFrom(s, 1)) ELSE DomainMatch(s)

\* DomainExemption::matches
DomainExemptionMatches(exemption, req) ==
    IF FindIsSome(req.url, S_scheme_sep \o exemption.domain) THEN TRUE
    ELSE IF exemption.tag = "SubdomainMatch"
              /\ FindIsSome(req.url, <<".">> \o exemption.domain)
         THEN TRUE
         ELSE FALSE

ExemptionIf(exemptions) == [tag |-> "If", exemptions |-> exemptions]
ExemptionUnless(exemptions) == [tag |-> "Unless", exemptions |-> exemptions]

\* Trigger::matches of lib.rs
LibTriggerMatches(t, req) ==
    IF /\ t.resource_type.tag = "List"
       /\ \A k \in 1..Len(t.resource_type.types) :
             t.resource_type.types[k] # req.resource_type
    THEN FALSE
    ELSE IF t.load_type.some /\ req.load_type # t.load_type.v THEN FALSE
    ELSE IF RegexIsMatch(t.url_filter, req.url)
         THEN IF ~t.exemption.some THEN TRUE
              ELSE LET hit == \E k \in 1..Len(t.exemption.v.exemptions) :
                                 DomainExemptionMatches(t.exemption.v.exemptions[k], req)
                   IN  IF t.exemption.v.tag = "If" THEN hit ELSE ~hit
         ELSE FALSE

\* Action::process of lib.rs
LibActionProcess(action, acc) ==
    CASE action.tag = "Block" -> Append(acc, ReactionBlock)
      [] action.tag = "BlockCookies" -> Append(acc, ReactionBlockCookies)
      [] action.tag = "CssDisplayNone" -> Append(acc, HideMatchingElements(action.selector))
      [] action.tag = "IgnorePreviousRules" -> <<>>

\* one iteration of the loop of process_rules_for_request of lib.rs
LibProcessRule(rule, req, acc) ==
    IF LibTriggerMatches(rule.trigger, req) THEN LibActionProcess(rule.action, acc) ELSE acc

(***************************************************************************)
(* The same rules and request given to both evaluators: the repr.rs one    *)
(* runs in pc / rules / next_rule / reactions, the lib.rs one in `lib`     *)
(***************************************************************************)
MaxBothRules == 2

\* a host that begins with the entry bad.org
U_bad_org_x == UrlOf(S_bad_org \o <<".", "x">>, S_ad_html)
\* the text ".verybad.org" in the query, on a host outside the set
U_query == UrlOf(S_good_org, S_ad_html \o <<"?">> \o <<".">> \o S_verybad_org)

BothUrls == TriggerUrls \cup {U_bad_org_x, U_query}

BothRequests == {Request(u, "Document", "FirstParty") : u \in BothUrls}

\* the domain strings of a rule: one entry, or the two of the tests
BothDomainLists ==
    { <<d>> : d \in RawDomains } \cup { <<S_bad_org, S_wildcard \o S_verybad_org>> }

\* a rule as its source text describes it: the key and its domain strings
RuleSources == {"if-domain", "unless-domain"} \X BothDomainLists

\* parse.rs lines 148-170 on that text
ReprRule(src) ==
    Rule(ConstrainedTrigger(IF src[1] = "if-domain"
                            THEN DomainConstraintIf(DomainMatcherNew(src[2]))
                            ELSE DomainConstraintUnless(DomainMatcherNew(src[2]))),
         ActionBlock)

\* lib.rs lines 352-378 on that text
LibRule(src) ==
    LET exemptions == [k \in 1..Len(src[2]) |-> DomainExemptionFromStr(src[2][k])]
    IN  Rule([url_filter |-> RegexNew(S_ad_html).regex,
              resource_type |-> ResourceTypeAll,
              load_type |-> None,
              exemption |-> Some(IF src[1] = "if-domain"
                                 THEN ExemptionIf(exemptions)
                                 ELSE ExemptionUnless(exemptions))],
             ActionBlock)

InitBoth ==
    /\ pc = "for"
    /\ request \in BothRequests
    /\ \E srcs \in SeqsUpTo(RuleSources, MaxBothRules) :
          /\ rules = [k \in 1..Len(srcs) |-> ReprRule(srcs[k])]
          /\ lib = [pc |-> "for",
                    rules |-> [k \in 1..Len(srcs) |-> LibRule(srcs[k])],
                    next_rule |-> 0,
                    reactions |-> <<>>]
    /\ next_rule = 0
    /\ reactions = <<>>
    /\ result = NoResult
    /\ body = InvalidBody
    /\ list = <<>>
    /\ trigger = NoTrigger
    /\ matched = FALSE
    /\ consulted = FALSE
    /\ calls = <<>>

\* lib.rs lines 287-291: one iteration
LibVisitRule ==
    /\ lib.pc = "for"
    /\ lib.next_rule < Len(lib.rules)
    /\ lib' = [lib EXCEPT
                 !.reactions = LibProcessRule(lib.rules[lib.next_rule + 1], request, @),
                 !.next_rule = @ + 1]
    /\ UNCHANGED <<pc, body, list, next_rule, rules, result, request, reactions, trigger, matched, consulted, calls>>

\* lib.rs line 292
LibReturnReactions ==
    /\ lib.pc = "for"
    /\ lib.next_rule = Len(lib.rules)
    /\ lib' = [lib EXCEPT !.pc = "reacted"]
    /\ UNCHANGED <<pc, body, list, next_rule, rules, result, request, reactions, trigger, matched, consulted, calls>>

NextBoth == VisitRule \/ ReturnReactions \/ LibVisitRule \/ LibReturnReactions

SpecBoth == InitBoth /\ [][NextBoth]_vars

(***************************************************************************)
(* Properties of process_rules_for_request_impl (SpecEval)                 *)
(***************************************************************************)
Matching(rs, req) == {k \in 1..Len(rs) : TriggerMatches(rs[k].trigger, req)}

Resets(rs, req) == {k \in Matching(rs, req) : rs[k].action.tag = "IgnorePreviousRules"}

\* the matching non-reset rules with no matching reset rule after them
Surviving(rs, req) ==
    {k \in Matching(rs, req) \ Resets(rs, req) : \A j \in Resets(rs, req) : j < k}

ReactionOf(action) ==
    CASE action.tag = "Block" -> ReactionBlock
      [] action.tag = "BlockCookies" -> ReactionBlockCookies
      [] action.tag = "CssDisplayNone" -> HideMatchingElements(action.selector)

\* the reactions of the surviving rules, in rule order
ExpectedReactions(rs, req) ==
    LET kept == SelectSeq([k \in 1..Len(rs) |-> k], LAMBDA k : k \in Surviving(rs, req))
    IN  [i \in 1..Len(kept) |-> ReactionOf(rs[kept[i]].action)]

\* C1: evaluation returns exactly the reactions of the matching non-reset
\* rules that come after the last matching reset rule, one per rule, in rule
\* order; it holds of the accumulator after every visited prefix of the rules
\* and of the returned list.
C1_ReactionsAfterLastReset ==
    /\ pc \in {"for", "reacted"} =>
          reactions = ExpectedReactions(SubSeq(rules, 1, next_rule), request)
    /\ pc = "reacted" =>
          /\ next_rule = Len(rules)
          /\ result = Ok(ExpectedReactions(rules, request))
          /\ (Matching(rules, request) = {} => result.v = <<>>)

\* a matching rule, then a matching reset rule, then a matching rule: only
\* the last one's reaction is returned
C1_Witness ==
    /\ pc = "reacted"
    /\ \E i, j, k \in 1..Len(rules) :
          /\ i < j /\ j < k
          /\ {i, k} \subseteq Matching(rules, request) \ Resets(rules, request)
          /\ j \in Resets(rules, request)
    /\ Len(result.v) = 1

(***************************************************************************)
(* Properties of parse_list_impl (Spec)                                    *)
(***************************************************************************)
\* a step of the loop that pushed a rule: the element is list[next_rule']
\* and its rule is the last of rules'
Pushes ==
    /\ pc = "loop" /\ pc' = "loop"
    /\ next_rule' = next_rule + 1
    /\ Len(rules') = Len(rules) + 1

\* a step of the loop that skipped its element
Skips ==
    /\ pc = "loop" /\ pc' = "loop"
    /\ next_rule' = next_rule + 1
    /\ rules' = rules

Last(s) == s[Len(s)]

\* the members of the trigger object of a rule object
TriggerOf(element) == AsObject(Get(AsObject(element).v, "trigger").v).v

HasTrigger(element) ==
    /\ AsObject(element).some
    /\ AndThenAsObject(Get(AsObject(element).v, "trigger")).some

SameButCase(u, v) ==
    /\ Len(u) = Len(v)
    /\ \A k \in 1..Len(u) : Fold(u[k]) = Fold(v[k])

\* url-filter-is-case-sensitive is absent or false
InsensitiveByFlag(element) ==
    LET flag == Get(TriggerOf(element), "url-filter-is-case-sensitive")
    IN  ~flag.some \/ flag.v = JBool(FALSE)

SensitiveByFlag(element) ==
    Get(TriggerOf(element), "url-filter-is-case-sensitive") = Some(JBool(TRUE))

\* C2: a rule loaded with url-filter-is-case-sensitive absent or false
\* matches every URL that differs only in letter case from a URL it matches.
C2_CaseInsensitiveByDefault ==
    [][(Pushes /\ InsensitiveByFlag(list[next_rule'])) =>
          \A u, v \in CaseUrls :
              (SameButCase(u, v) /\ RegexIsMatch(Last(rules').trigger.url_filter, u))
                  => RegexIsMatch(Last(rules').trigger.url_filter, v)]_vars

\* C3: a rule loaded with url-filter-is-case-sensitive true matches a URL
\* only if the filter text, taken with its letter case, matches it.
C3_CaseSensitiveWhenFlagged ==
    [][(Pushes /\ SensitiveByFlag(list[next_rule'])) =>
          \A u \in CaseUrls :
              RegexIsMatch(Last(rules').trigger.url_filter, u)
                  => RegexIsMatch([caseless |-> FALSE,
                                   pattern |-> AsStr(Get(TriggerOf(list[next_rule']),
                                                         "url-filter").v).v], u)]_vars

\* C4: the load fails with JSON exactly for rejected text and with NotAList
\* exactly for a root that is not an array; every array loads, and a failed
\* load has built no rule.
C4_OnlyTwoFatalErrors ==
    pc = "returned" =>
        /\ result = ErrorJSON <=> ~body.valid
        /\ result = ErrorNotAList <=> (body.valid /\ body.json.kind # "array")
        /\ result.tag = "Ok" <=> (body.valid /\ body.json.kind = "array")
        /\ result.tag = "Err" => rules = <<>> /\ next_rule = 0
        /\ result.tag = "Ok" => result.v = rules

\* a root that is a rule object, not an array, is refused with NotAList
C4_Witness ==
    /\ pc = "returned"
    /\ body.valid /\ body.json.kind = "object"
    /\ result = ErrorNotAList

\* the action tag a recognised "type" string stands for
ActionTypes ==
    { <<S_block, "Block">>, <<S_block_cookies, "BlockCookies">>,
      <<S_css_display_none, "CssDisplayNone">>,
      <<S_ignore_previous_rules, "IgnorePreviousRules">> }

IsArray(o) == o.some /\ o.v.kind = "array"
IsString(o) == o.some /\ o.v.kind = "string"
IsObject(o) == o.some /\ o.v.kind = "object"

\* the element has a usable action object
ValidAction(a) ==
    /\ IsObject(a)
    /\ IsString(Get(a.v.members, "type"))
    /\ \E p \in ActionTypes : p[1] = Get(a.v.members, "type").v.s
    /\ Get(a.v.members, "type").v.s = S_css_display_none
          => IsString(Get(a.v.members, "selector"))

\* the element has a usable trigger object
ValidTrigger(tr) ==
    /\ IsObject(tr)
    /\ IsString(Get(tr.v.members, "url-filter"))
    /\ RegexNew(Get(tr.v.members, "url-filter").v.s).ok
    /\ ~(IsArray(Get(tr.v.members, "if-domain")) /\ IsArray(Get(tr.v.members, "unless-domain")))

\* the element is individually valid
ValidElement(element) ==
    /\ element.kind = "object"
    /\ ValidTrigger(Get(element.members, "trigger"))
    /\ ValidAction(Get(element.members, "action"))

\* the rule carries the filter text and the action type of the element
BuiltFrom(rule, element) ==
    /\ rule.trigger.url_filter.pattern =
          Get(Get(element.members, "trigger").v.members, "url-filter").v.s
    /\ <<Get(Get(element.members, "action").v.members, "type").v.s, rule.action.tag>>
          \in ActionTypes

ValidUpTo(n) == {k \in 1..n : ValidElement(list[k])}

\* C5: the rules built so far are, in order, the rules of the valid
\* elements visited so far: an invalid element is skipped, does not end the
\* load, and does not change what is built from the other elements.
C5_ValidElementsInOrder ==
    (pc \in {"loop", "returned"} /\ body.valid /\ body.json.kind = "array") =>
        /\ list = body.json.items
        /\ Len(rules) = Cardinality(ValidUpTo(next_rule))
        /\ \A k \in ValidUpTo(next_rule) :
              BuiltFrom(rules[Cardinality(ValidUpTo(k))], list[k])
        /\ pc = "returned" => (next_rule = Len(list) /\ result = Ok(rules))

\* an invalid element followed by a valid one: the load returns the one rule
C5_Witness ==
    /\ pc = "returned"
    /\ Len(list) = 2
    /\ ~ValidElement(list[1])
    /\ ValidElement(list[2])
    /\ result.tag = "Ok"
    /\ Len(result.v) = 1
    /\ BuiltFrom(result.v[1], list[2])

HasBothDomainFields(element) ==
    /\ Get(TriggerOf(element), "if-domain").some
    /\ Get(TriggerOf(element), "unless-domain").some

HasBothDomainArrays(element) ==
    /\ IsArray(Get(TriggerOf(element), "if-domain"))
    /\ IsArray(Get(TriggerOf(element), "unless-domain"))

\* C6 as stated: no rule is built from an element whose trigger has both an
\* if-domain and an unless-domain member, whatever their values.
C6_BothDomainFieldsDropped ==
    [][Pushes => ~HasBothDomainFields(list[next_rule'])]_vars

\* C6 amended: no rule is built from an element whose trigger has an
\* if-domain and an unless-domain member that are both arrays, whatever the
\* arrays hold.
C6_BothDomainArraysDropped ==
    [][(pc = "loop" /\ pc' = "loop" /\ next_rule' = next_rule + 1
          /\ HasTrigger(list[next_rule']) /\ HasBothDomainArrays(list[next_rule']))
        => Skips]_vars

\* an otherwise valid element with two empty domain arrays has been skipped
C6_Witness ==
    /\ pc = "loop"
    /\ next_rule = 1
    /\ rules = <<>>
    /\ HasTrigger(list[1])
    /\ Get(TriggerOf(list[1]), "if-domain") = Some(JArray(<<>>))
    /\ Get(TriggerOf(list[1]), "unless-domain") = Some(JArray(<<>>))
    /\ ValidAction(Get(list[1].members, "action"))
    /\ IsString(Get(TriggerOf(list[1]), "url-filter"))

\* the resource type a recognised tag stands for
ResourceTypeTags ==
    { <<S_document, "Document">>, <<S_image, "Image">>, <<S_style_sheet, "StyleSheet">>,
      <<S_script, "Script">>, <<S_font, "Font">>, <<S_raw, "Raw">>,
      <<S_svg_document, "SVGDocument">>, <<S_media, "Media">>, <<S_popup, "Popup">> }

\* the resource types named by recognised tags of a JSON array
RecognisedTypes(items) ==
    { p[2] : p \in { q \in ResourceTypeTags :
                        \E k \in 1..Len(items) : items[k] = JString(q[1]) } }

\* the resource types of the requests a trigger lets through
AllowedTypes(t) ==
    { r \in ResourceType :
        \A u \in CaseUrls, l \in LoadType : ResourceTypeAllows(t, Request(u, r, l)) }

\* C7 as stated: a rule whose resource-type is absent or an array without a
\* recognised tag matches all nine resource types; one whose array has a
\* recognised tag matches exactly the recognised tags listed.
C7_UnrecognisedTagsMeanAll ==
    [][Pushes =>
          LET field == Get(TriggerOf(list[next_rule']), "resource-type")
              types == AllowedTypes(Last(rules').trigger)
          IN  /\ ~field.some => types = ResourceType
              /\ (IsArray(field) /\ field.v.items # <<>>) =>
                    types = IF RecognisedTypes(field.v.items) = {} THEN ResourceType
                            ELSE RecognisedTypes(field.v.items)]_vars

\* C7 amended: a rule whose resource-type is absent (or is not an array)
\* matches all nine resource types; one whose resource-type is an array
\* matches exactly the recognised tags listed, so none at all when the array
\* lists no recognised tag.
C7_ArrayMeansListedTypes ==
    [][Pushes =>
          LET field == Get(TriggerOf(list[next_rule']), "resource-type")
              types == AllowedTypes(Last(rules').trigger)
          IN  /\ ~IsArray(field) => types = ResourceType
              /\ IsArray(field) => types = RecognisedTypes(field.v.items)]_vars

\* a rule loaded from an array holding only an unrecognised tag: it is in
\* the rule set and lets no resource type through
C7_Witness ==
    /\ pc = "loop"
    /\ next_rule = 1
    /\ Len(rules) = 1
    /\ Get(TriggerOf(list[1]), "resource-type") = Some(StrArray(<<S_bogus>>))
    /\ AllowedTypes(rules[1].trigger) = {}

\* the load type a recognised entry stands for
LoadTypeTags == { <<S_first_party, "FirstParty">>, <<S_third_party, "ThirdParty">> }

RecognisedAt(items) ==
    { k \in 1..Len(items) : \E p \in LoadTypeTags : items[k] = JString(p[1]) }

\* the load-type filter the claim gives a load-type member
ExpectedLoadType(field) ==
    IF ~IsArray(field) \/ RecognisedAt(field.v.items) = {} THEN None
    ELSE LET first == CHOOSE k \in RecognisedAt(field.v.items) :
                         \A j \in RecognisedAt(field.v.items) : k <= j
         IN  Some((CHOOSE p \in LoadTypeTags : field.v.items[first] = JString(p[1]))[2])

\* C8: the load-type filter of a loaded rule is the first recognised entry
\* of the load-type array; with the member absent, not an array or without
\* a recognised entry the rule lets both load types through.
C8_FirstRecognisedLoadType ==
    [][Pushes =>
          LET field == Get(TriggerOf(list[next_rule']), "load-type")
              t == Last(rules').trigger
          IN  /\ t.load_type = ExpectedLoadType(field)
              /\ \A l \in LoadType :
                    LoadTypeAllows(t, Request(U_hi, "Document", l))
                        <=> (ExpectedLoadType(field) \in {None, Some(l)})]_vars

\* a rule loaded from ["third-party", "first-party"]: it filters on the
\* first entry only
C8_Witness ==
    /\ pc = "loop"
    /\ next_rule = 1
    /\ Len(rules) = 1
    /\ Get(TriggerOf(list[1]), "load-type") = Some(StrArray(<<S_third_party, S_first_party>>))
    /\ rules[1].trigger.load_type = Some("ThirdParty")
    /\ ~LoadTypeAllows(rules[1].trigger, Request(U_hi, "Document", "FirstParty"))

(***************************************************************************)
(* Properties of Trigger::matches and DomainMatcher::matches (SpecTrigger) *)
(***************************************************************************)
Entries(s) == {s[k] : k \in 1..Len(s)}

\* H is a strict subdomain of the entry E
StrictSubdomain(H, E) ==
    /\ Len(H) > Len(E)
    /\ SubSeq(H, Len(H) - Len(E) + 1, Len(H)) = E
    /\ H[Len(H) - Len(E)] = "."

\* the host is a member of the domain set
Member(matcher, H) ==
    \/ H \in Entries(matcher.exact)
    \/ H \in Entries(matcher.subdomain)
    \/ \E E \in Entries(matcher.subdomain) : StrictSubdomain(H, E)

HasConstraint == trigger.domain_constraint.some

ConstraintMatcher == trigger.domain_constraint.v.matcher

\* C9: for the domain set of the trigger and the host of the request,
\* DomainMatcher::matches is true exactly when the host is an exact entry,
\* equals a subdomain entry, or is a strict subdomain of a subdomain entry;
\* when Trigger::matches has consulted the matcher, the value returned is
\* that answer for If and its negation for Unless; an exact entry alone does
\* not match its subdomains, nor a subdomain entry a host that ends with it
\* without a "." before it.
C9_DomainMatcherMembership ==
    (HasConstraint /\ UrlDomain(request.url).some) =>
        LET H == UrlDomain(request.url).v
        IN  /\ DomainMatcherMatches(ConstraintMatcher, request.url)
                  <=> Member(ConstraintMatcher, H)
            /\ (pc = "matched" /\ consulted) =>
                  (matched <=> IF trigger.domain_constraint.v.tag = "If"
                               THEN Member(ConstraintMatcher, H)
                               ELSE ~Member(ConstraintMatcher, H))
            /\ \A E \in Entries(ConstraintMatcher.exact) :
                  StrictSubdomain(H, E)
                      => ~DomainMatcherMatches([exact |-> <<E>>, subdomain |-> <<>>],
                                               request.url)
            /\ \A E \in Entries(ConstraintMatcher.subdomain) :
                  (Len(H) > Len(E) /\ EndsWith(H, E) /\ H[Len(H) - Len(E)] # ".")
                      => ~DomainMatcherMatches([exact |-> <<>>, subdomain |-> <<E>>],
                                               request.url)

\* the matcher was consulted for a host that is a strict subdomain of a
\* subdomain entry and of no exact entry, and answered yes
C9_Witness ==
    /\ pc = "matched"
    /\ consulted
    /\ trigger.domain_constraint.v.tag = "If"
    /\ UrlDomain(request.url).some
    /\ UrlDomain(request.url).v \notin Entries(ConstraintMatcher.exact)
                                       \cup Entries(ConstraintMatcher.subdomain)
    /\ \E E \in Entries(ConstraintMatcher.subdomain) :
          StrictSubdomain(UrlDomain(request.url).v, E)
    /\ matched

\* the four conditions of a match
ResourceTypeCondition ==
    \/ trigger.resource_type.tag = "All"
    \/ request.resource_type \in Entries(trigger.resource_type.types)

LoadTypeCondition ==
    \/ ~trigger.load_type.some
    \/ trigger.load_type.v = request.load_type

UrlCondition == RegexIsMatch(trigger.url_filter, request.url)

DomainCondition ==
    \/ ~HasConstraint
    \/ /\ trigger.domain_constraint.v.tag = "If"
       /\ DomainMatcherMatches(ConstraintMatcher, request.url)
    \/ /\ trigger.domain_constraint.v.tag = "Unless"
       /\ ~DomainMatcherMatches(ConstraintMatcher, request.url)

\* C10: Trigger::matches returns true exactly when the resource-type filter,
\* the load-type filter, the URL pattern and the domain constraint all let
\* the request through.
C10_MatchesIffAllFour ==
    LET all == ResourceTypeCondition /\ LoadTypeCondition
               /\ UrlCondition /\ DomainCondition
    IN  /\ pc = "matched" => (matched <=> all)
        /\ TriggerMatches(trigger, request) <=> all

\* a request refused by an Unless constraint alone: the three filters let
\* it through and its host is a member of the set
C10_Witness ==
    /\ pc = "matched"
    /\ ~matched
    /\ ResourceTypeCondition /\ LoadTypeCondition /\ UrlCondition
    /\ trigger.resource_type.tag = "List"
    /\ trigger.load_type.some
    /\ HasConstraint
    /\ trigger.domain_constraint.v.tag = "Unless"

(***************************************************************************)
(* Properties of repeated and concurrent evaluation (SpecCalls)            *)
(***************************************************************************)
Returned(c) == calls[c].pc = "reacted"

\* C11: every evaluation leaves the rule set as it was, and any two
\* evaluations of it against the same request, whichever ran first and
\* whatever ran in between, return identical reaction lists.
C11_RepeatedEvaluationSameResult ==
    [][/\ rules' = rules
       /\ \A c, d \in DOMAIN calls' :
             (/\ calls'[c].pc = "reacted"
              /\ calls'[d].pc = "reacted"
              /\ calls'[c].request = calls'[d].request)
             => calls'[c].reactions = calls'[d].reactions]_vars

C11_Witness ==
    /\ Len(calls) >= 2
    /\ Returned(1) /\ Returned(2)
    /\ calls[1].request = calls[2].request
    /\ Len(rules) >= 2
    /\ calls[1].reactions # <<>>

\* the part of `rules` a frame has visited
Visited(f) == SubSeq(rules, 1, f.next_rule)

\* C13: in every interleaving a call's accumulator is what the call alone
\* would have built from the rules it has visited (so the list it returns
\* is the one it returns when run alone), a step changes the frame of at
\* most one call, and no step writes the rule set.
C13_InterleavedCallsAsAlone ==
    [][/\ rules' = rules
       /\ \A c \in DOMAIN calls' :
             calls'[c].reactions =
                 ProcessRulesForRequestImpl(Visited(calls'[c]), calls'[c].request)
       /\ \A c, d \in DOMAIN calls :
             c # d => calls'[c] = calls[c] \/ calls'[d] = calls[d]]_vars

C13_Witness ==
    /\ Len(calls) >= 2
    /\ calls[1].pc = "for" /\ calls[2].pc = "for"
    /\ calls[1].next_rule = 1 /\ calls[2].next_rule = 1
    /\ Len(rules) >= 2
    /\ calls[1].reactions # <<>>
    /\ calls[1].reactions # calls[2].reactions

(***************************************************************************)
(* Properties of the css-display-none action (Spec)                        *)
(***************************************************************************)
\* the rule object has an action object of type "css-display-none"
CssElement(element) ==
    /\ element.kind = "object"
    /\ IsObject(Get(element.members, "action"))
    /\ Get(Get(element.members, "action").v.members, "type")
          = Some(JString(S_css_display_none))

SelectorOf(element) == Get(Get(element.members, "action").v.members, "selector")

CaseRequests == {Request(u, "Document", "FirstParty") : u \in CaseUrls}

\* C12: a css-display-none rule object is skipped when its action has no
\* "selector" or one that is not a string; with a string selector (and a
\* valid trigger) it is loaded, the rule carries that very string, and for
\* every request the rule matches the reaction it adds is
\* HideMatchingElements of that string.
C12_CssSelectorCarriedUnchanged ==
    [][(/\ pc = "loop" /\ next_rule' = next_rule + 1
        /\ CssElement(list[next_rule'])) =>
          LET element == list[next_rule']
              selector == SelectorOf(element)
          IN  /\ ~IsString(selector) => Skips
              /\ (IsString(selector) /\ ValidTrigger(Get(element.members, "trigger")))
                    => Pushes
              /\ Pushes =>
                    /\ IsString(selector)
                    /\ Last(rules').action = CssDisplayNone(selector.v.s)
                    /\ \A req \in CaseRequests :
                          TriggerMatches(Last(rules').trigger, req) =>
                              ProcessRule(Last(rules'), req, <<>>)
                                  = <<HideMatchingElements(selector.v.s)>>]_vars

C12_Witness ==
    /\ pc = "loop" /\ Len(list) = 1 /\ next_rule = 1 /\ Len(rules) = 1
    /\ CssElement(list[1])
    /\ SelectorOf(list[1]) = Some(JString(S_selector))
    /\ \E req \in CaseRequests :
          ProcessRule(rules[1], req, <<>>) = <<HideMatchingElements(S_selector)>>

\* the first three filters of the trigger pass
FiltersPass == ResourceTypeCondition /\ LoadTypeCondition /\ UrlCondition

\* C14: for a request whose URL has no host name (no host at all, or an
\* IP address), DomainMatcher::matches is false for every domain set, so a
\* trigger with If never matches and a trigger with Unless matches exactly
\* when its resource-type, load-type and URL filters pass.
C14_NoHostInNoDomainSet ==
    (HasConstraint /\ ~UrlDomain(request.url).some) =>
        /\ ~DomainMatcherMatches(ConstraintMatcher, request.url)
        /\ TriggerMatches(trigger, request)
              <=> (trigger.domain_constraint.v.tag = "Unless" /\ FiltersPass)
        /\ pc = "matched" =>
              (matched <=> (trigger.domain_constraint.v.tag = "Unless" /\ FiltersPass))

\* an Unless trigger whose set holds the empty suffix matched a request
\* without host
C14_Witness ==
    /\ pc = "matched"
    /\ consulted
    /\ ~UrlDomain(request.url).some
    /\ trigger.domain_constraint.v.tag = "Unless"
    /\ <<>> \in Entries(ConstraintMatcher.subdomain)
    /\ matched

\* C15: a trigger whose URL pattern does not match the request URL does
\* not match, whatever its domain constraint, and returns without having
\* consulted the constraint; the step that consults the domain constraint
\* is taken only from the position reached after the resource-type,
\* load-type and URL-pattern checks have all passed.
C15_DomainConstraintAfterUrlFilter ==
    [][/\ ~UrlCondition => ~TriggerMatches(trigger, request)
       /\ (pc' = "matched" /\ ~UrlCondition) => (~matched' /\ ~consulted')
       /\ pc' = "domain_constraint" => FiltersPass
       /\ (consulted' /\ ~consulted) => (pc = "domain_constraint" /\ FiltersPass)]_vars

\* an Unless trigger returned false, without consulting its set, for a
\* request whose host is outside the set and whose URL fails the pattern
C15_Witness ==
    /\ pc = "matched"
    /\ HasConstraint
    /\ trigger.domain_constraint.v.tag = "Unless"
    /\ UrlDomain(request.url).some
    /\ ~Member(ConstraintMatcher, UrlDomain(request.url).v)
    /\ ResourceTypeCondition /\ LoadTypeCondition /\ ~UrlCondition
    /\ ~matched
    /\ ~consulted

(***************************************************************************)
(* Properties of the domain sets the loader builds (Spec)                  *)
(***************************************************************************)
\* the strings among the items of an array, in the array's order
StringsOf(items) ==
    LET strs == SelectSeq(items, LAMBDA j : j.kind = "string")
    IN  [k \in 1..Len(strs) |-> strs[k].s]

Starred(s) == s # <<>> /\ s[1] = "*"

\* the two collections the claim describes, for the items of an array
ExactOf(items) == SelectSeq(StringsOf(items), LAMBDA s : ~Starred(s))

SubdomainOf(items) ==
    LET starred == SelectSeq(StringsOf(items), LAMBDA s : Starred(s))
    IN  [k \in 1..Len(starred) |-> SubSeq(starred[k], 2, Len(starred[k]))]

\* the domain field of the trigger object that is an array, if any
DomainField(element) ==
    LET i == Get(TriggerOf(element), "if-domain")
        u == Get(TriggerOf(element), "unless-domain")
    IN  IF IsArray(i) THEN i ELSE IF IsArray(u) THEN u ELSE None

\* C16: the domain set of a rule loaded from an if-domain or unless-domain
\* array holds, in its exact collection, the array's strings that do not
\* begin with "*", unchanged and in input order, and in its subdomain
\* collection the strings that begin with "*", without that one character
\* and in input order; every string entry is thus in exactly one
\* collection, and entries that are not strings are in neither.
C16_DomainSetCollections ==
    [][(Pushes /\ DomainField(list[next_rule']).some) =>
          LET items == DomainField(list[next_rule']).v.items
              matcher == Last(rules').trigger.domain_constraint.v.matcher
          IN  /\ Last(rules').trigger.domain_constraint.some
              /\ matcher.exact = ExactOf(items)
              /\ matcher.subdomain = SubdomainOf(items)
              /\ Len(matcher.exact) + Len(matcher.subdomain) = Len(StringsOf(items))]_vars

\* a set loaded from an array with two entries of each sort, one of them
\* starting with two markers, and an entry that is not a string
C16_Witness ==
    /\ pc = "loop" /\ Len(list) = 1 /\ next_rule = 1 /\ Len(rules) = 1
    /\ DomainField(list[1]).some
    /\ Len(DomainField(list[1]).v.items) > Len(StringsOf(DomainField(list[1]).v.items))
    /\ rules[1].trigger.domain_constraint.v.matcher
          = [exact |-> <<S_good_org, S_bad_org>>,
             subdomain |-> <<S_bad_org, S_wildcard \o S_org>>]

EmptyMatcher == [exact |-> <<>>, subdomain |-> <<>>]

\* the request passes the first three filters of the trigger t
PassesFilters(t, req) ==
    /\ ResourceTypeAllows(t, req)
    /\ LoadTypeAllows(t, req)
    /\ UrlFilterAllows(t, req)

\* C20: a valid rule object whose if-domain (unless-domain) array holds no
\* string is loaded, with an empty If (Unless) set; with If the rule matches
\* no request, with Unless it matches exactly the requests that pass its
\* resource-type, load-type and URL-pattern filters.
C20_EmptyDomainSetKept ==
    [][(/\ pc = "loop" /\ next_rule' = next_rule + 1
        /\ ValidElement(list[next_rule'])
        /\ DomainField(list[next_rule']).some
        /\ StringsOf(DomainField(list[next_rule']).v.items) = <<>>) =>
          /\ Pushes
          /\ LET t == Last(rules').trigger
             IN  IF IsArray(Get(TriggerOf(list[next_rule']), "if-domain"))
                 THEN /\ t.domain_constraint = Some(DomainConstraintIf(EmptyMatcher))
                      /\ \A req \in TriggerRequests : ~TriggerMatches(t, req)
                 ELSE /\ t.domain_constraint = Some(DomainConstraintUnless(EmptyMatcher))
                      /\ \A req \in TriggerRequests :
                            TriggerMatches(t, req) <=> PassesFilters(t, req)]_vars

\* a rule loaded from an if-domain array holding only a number, and a
\* request that passes its filters
C20_Witness ==
    /\ pc = "loop" /\ Len(list) = 1 /\ next_rule = 1 /\ Len(rules) = 1
    /\ IsArray(Get(TriggerOf(list[1]), "if-domain"))
    /\ DomainField(list[1]).v.items # <<>>
    /\ rules[1].trigger.domain_constraint = Some(DomainConstraintIf(EmptyMatcher))
    /\ \E req \in TriggerRequests :
          PassesFilters(rules[1].trigger, req) /\ ~TriggerMatches(rules[1].trigger, req)

(***************************************************************************)
(* Evaluation over concatenated rule lists (SpecEval)                      *)
(***************************************************************************)
\* the result of the function for the rules from..to of the rule set
Evaluate(from, to) ==
    ProcessRulesForRequestImpl(SubSeq(rules, from, to), request)

\* C19: the accumulator after the visited rules, taken as a list A followed
\* by a list B at any split, is evaluate(B) when a reset rule of B matches
\* the request and evaluate(A) followed by evaluate(B) otherwise, and the
\* returned list is that of the whole rule set; a matching reset leaves an
\* empty accumulator empty, and after a matching reset a second one changes
\* nothing.
C19_EvaluationOverConcatenation ==
    /\ reactions = Evaluate(1, next_rule)
    /\ \A k \in 0..next_rule :
          reactions =
              IF Resets(SubSeq(rules, k + 1, next_rule), request) # {}
              THEN Evaluate(k + 1, next_rule)
              ELSE Evaluate(1, k) \o Evaluate(k + 1, next_rule)
    /\ pc = "reacted" => (next_rule = Len(rules) /\ result = Ok(Evaluate(1, Len(rules))))
    /\ \A k \in 1..next_rule :
          k \in Resets(rules, request) =>
              /\ ProcessRule(rules[k], request, <<>>) = <<>>
              /\ ProcessRule(rules[k], request, ProcessRule(rules[k], request, reactions))
                    = ProcessRule(rules[k], request, reactions)
              /\ (k > 1 /\ k - 1 \in Resets(rules, request)) =>
                    Evaluate(1, k) = Evaluate(1, k - 1)

\* a matching rule, then two consecutive matching reset rules
C19_Witness ==
    /\ pc = "reacted"
    /\ Len(rules) = 3
    /\ 1 \in Matching(rules, request) \ Resets(rules, request)
    /\ {2, 3} \subseteq Resets(rules, request)
    /\ result = Ok(<<>>)

(***************************************************************************)
(* The if-domain / unless-domain example, end to end (SpecEndToEnd)        *)
(***************************************************************************)
\* the domain set of the example: bad.org itself, verybad.org and below
ExampleSet == [exact |-> <<S_bad_org>>, subdomain |-> <<S_verybad_org>>]

InExampleSet(url) ==
    UrlDomain(url).some /\ Member(ExampleSet, UrlDomain(url).v)

\* the URL matches the url-filter text of the example
MatchesExampleFilter(url) == RegexIsMatch(RegexNew(S_ad_html).regex, url)

Complement(r) == IF r = <<>> THEN <<ReactionBlock>> ELSE <<>>

\* what the if-domain rule of the example is to return
ExampleIfResult(url) ==
    IF MatchesExampleFilter(url) /\ InExampleSet(url) THEN <<ReactionBlock>> ELSE <<>>

\* C18: the example rule, loaded from its text and evaluated, returns
\* [Block] on bad.org, [] on ok.bad.org, [Block] on verybad.org and [Block]
\* on notok.verybad.org; with unless-domain in place of if-domain it
\* returns, for every request whose URL matches the filter, the complement
\* of the if-domain result; and the two rules loaded one after the other
\* return exactly one Block for every such request.
C18_DomainExampleEndToEnd ==
    pc = "reacted" =>
        /\ body = IfBody =>
              /\ result = Ok(ExampleIfResult(request.url))
              /\ request.url = U_bad => result = Ok(<<ReactionBlock>>)
              /\ request.url = U_ok_bad => result = Ok(<<>>)
              /\ request.url = U_verybad => result = Ok(<<ReactionBlock>>)
              /\ request.url = U_notok_verybad => result = Ok(<<ReactionBlock>>)
        /\ (body = UnlessBody /\ MatchesExampleFilter(request.url)) =>
              /\ result = Ok(Complement(ExampleIfResult(request.url)))
              /\ request.url = U_bad => result = Ok(<<>>)
              /\ request.url = U_ok_bad => result = Ok(<<ReactionBlock>>)
              /\ request.url = U_verybad => result = Ok(<<>>)
              /\ request.url = U_notok_verybad => result = Ok(<<>>)
        /\ (body = IfUnlessBody /\ MatchesExampleFilter(request.url)) =>
              result = Ok(<<ReactionBlock>>)

\* the unless-domain rule was loaded and evaluated for ok.bad.org
C18_Witness ==
    /\ pc = "reacted"
    /\ body = UnlessBody
    /\ request.url = U_ok_bad
    /\ Len(rules) = 1 /\ next_rule = 1
    /\ rules[1].trigger.domain_constraint = Some(DomainConstraintUnless(ExampleSet))
    /\ result = Ok(<<ReactionBlock>>)

(***************************************************************************)
(* Termination of process_rules_for_request_impl (SpecTotal)               *)
(***************************************************************************)
\* the subdomain entries of the domain sets of the rule set
SuffixEntries ==
    UNION { Entries(rules[k].trigger.domain_constraint.v.matcher.subdomain) :
              k \in {j \in 1..Len(rules) : rules[j].trigger.domain_constraint.some} }

\* C17: an evaluation never panics, the index of the subdomain test is
\* inside the host for every subdomain entry shorter than the host (the
\* empty entry included), every step of the loop visits the next rule in
\* rule order, and the evaluation ends by returning its accumulator after
\* the last rule.
C17_EvaluationTerminates ==
    /\ [](pc # "panicked")
    /\ [](UrlDomain(request.url).some =>
            \A suffix \in SuffixEntries :
                LET domain == UrlDomain(request.url).v
                IN  Len(domain) > Len(suffix) =>
                        SuffixIndex(domain, suffix) \in 0..(Len(domain) - 1))
    /\ [][pc = "for" =>
            \/ /\ pc' = "for"
               /\ next_rule' = next_rule + 1
               /\ reactions' = ProcessRule(rules[next_rule'], request, reactions)
            \/ /\ pc' = "reacted"
               /\ next_rule = Len(rules)
               /\ result' = Ok(reactions)]_vars
    /\ <>(pc = "reacted")

\* an evaluation returned after its two rules, one of them with the empty
\* suffix entry, consulted their domain sets for a host
C17_Witness ==
    /\ pc = "reacted"
    /\ Len(rules) = 2 /\ next_rule = 2
    /\ <<>> \in SuffixEntries
    /\ UrlDomain(request.url).some
    /\ \A k \in 1..2 : PassesFilters(rules[k].trigger, request)
    /\ result = Ok(reactions)

(***************************************************************************)
(* The evaluators of lib.rs and of repr.rs on the same rules (SpecBoth)    *)
(***************************************************************************)
\* the one-entry domain set of repr.rs for an entry of lib.rs
OneEntrySet(exemption) ==
    IF exemption.tag = "SubdomainMatch"
    THEN [exact |-> <<>>, subdomain |-> <<exemption.domain>>]
    ELSE [exact |-> <<exemption.domain>>, subdomain |-> <<>>]

\* the entries of the rules the lib.rs evaluator has visited
VisitedExemptions ==
    UNION { Entries(lib.rules[k].trigger.exemption.v.exemptions) : k \in 1..lib.next_rule }

\* C21: for a request whose URL has a host, every domain entry the lib.rs
\* evaluator has tested gets from DomainExemption::matches the answer that
\* DomainMatcher::matches gives for the one-entry set and the URL's host,
\* and once both evaluators have returned their reaction lists are equal.
C21_DomainImplementationsAgree ==
    UrlDomain(request.url).some =>
        /\ \A exemption \in VisitedExemptions :
              DomainExemptionMatches(exemption, request)
                  <=> DomainMatcherMatches(OneEntrySet(exemption), request.url)
        /\ (pc = "reacted" /\ lib.pc = "reacted") => lib.reactions = reactions

\* the two evaluators returned different lists for one if-domain rule
\* with the exact entry bad.org and the host bad.org.x
C21_Disagreement ==
    /\ pc = "reacted" /\ lib.pc = "reacted"
    /\ Len(rules) = 1
    /\ rules[1] = ReprRule(<<"if-domain", <<S_bad_org>>>>)
    /\ lib.rules[1] = LibRule(<<"if-domain", <<S_bad_org>>>>)
    /\ request.url = U_bad_org_x
    /\ reactions = <<>>
    /\ lib.reactions = <<ReactionBlock>>

====
